---- MODULE Spec2Model ----
(***************************************************************************)
(* Model of ursa_node.cpp: the ROS node that reads its parameters, checks  *)
(* them against two lookup tables, drives the ursa::Interface device and   *)
(* republishes readings from a one-second timer.                           *)
(*                                                                         *)
(* Representation.                                                         *)
(*  - A parameter of the node's private namespace is an option: <<>> when  *)
(*    the key is not set, <<v>> when it is set to v.                       *)
(*  - A double holding microseconds is written in hundredths of a          *)
(*    microsecond (0.25 is 25, 1 is 100, 10 is 1000); every key of         *)
(*    shape_map is exactly representable, and std::map::find compares      *)
(*    keys exactly.                                                        *)
(*  - A call on the device is a record [op, arg], arg the tuple of the     *)
(*    call's arguments.  ursa::Interface itself is outside this file.      *)
(***************************************************************************)
EXTENDS Integers, Sequences, FiniteSets, TLC

VARIABLES
  nh,                 \* the parameters of the node's private namespace
  pc,                 \* main's position
  exit_status,        \* main's return value, meaningful once pc = "exited"
  HV, gain, threshold, shaping_time, real_shaping_time,
  input_polarity, real_input, ramp,
  shape_map, input_map,
  load_prev, GMmode, imeadiate,
  port, baud, detector_frame,
  gp_ret,             \* the value get_params returned to main (0: not called)
  rosout,             \* the ROS_ERROR messages logged, oldest first
  param_reads,        \* the keys looked up in nh, oldest first
  my_ursa,            \* the calls made on the device object, oldest first
  connected,          \* what my_ursa->connected() answers
  publisher,          \* the topic advertised ("" before nh.advertise)
  services,           \* the services advertised
  timer,              \* "none", "stopped" or "running"
  published,          \* the messages published, oldest first
  events,             \* callbacks dispatched by ros::spin so far
  running             \* the callbacks taken off the queue and not yet returned

globals == <<HV, gain, threshold, shaping_time, real_shaping_time,
             input_polarity, real_input, ramp, shape_map, input_map,
             load_prev, GMmode, imeadiate, port, baud, detector_frame>>

resolution == <<gp_ret, rosout, param_reads>>

wiring == <<publisher, services, timer>>

vars == <<nh, pc, exit_status, globals, resolution, my_ursa, connected,
          wiring, published, events, running>>

(***************************************************************************)
(* Bounds of the model.                                                    *)
(***************************************************************************)
\* Callbacks (service calls and timer ticks) dispatched while spinning.
MaxEvents == 3

(***************************************************************************)
(* Program constants.                                                      *)
(***************************************************************************)
DefaultBaud == 115200

\* ros::MultiThreadedSpinner with two threads, not what main uses.
MultiThreadedSpinner == 1 + 1

\* ros::spin() serves the node's callback queue from one thread, main's.
SpinnerThreads == 1

DefaultPort == "/dev/ttyUSB0"

DefaultFrame == "rad_link"

\* The value of a zero-initialised enum global whose enumerators are declared
\* in ursa_driver.h, not in this file.
ZeroEnum == "enum(0)"

\* The empty std::map.
EmptyMap == [k \in {} |-> k]

Opt(S) == {<<>>} \cup {<<v>> : v \in S}

(***************************************************************************)
(* ros::NodeHandle parameter access.                                       *)
(***************************************************************************)
\* nh.getParam(key, var): true iff the key is set (var is then assigned).
getParam(params, key) == Len(params[key]) > 0

param_always_default(params, key, default) == default

\* nh.param(key, var, default): the key's value when set, else the default.
param(params, key, default) ==
  IF Len(params[key]) > 0 THEN params[key][1] ELSE default

(***************************************************************************)
(* fill_maps                                                               *)
(***************************************************************************)
MapSet(m, k, v) == [x \in (DOMAIN m) \cup {k} |-> IF x = k THEN v ELSE m[x]]

fill_maps_shape_swapped(m) ==
  LET m1 == MapSet(m, 25, "TIME0_25uS")
      m2 == MapSet(m1, 50, "TIME0_5uS")
      m3 == MapSet(m2, 100, "TIME1uS")
      m4 == MapSet(m3, 200, "TIME2uS")
      m5 == MapSet(m4, 400, "TIME4uS")
      m6 == MapSet(m5, 600, "TIME8uS")
      m7 == MapSet(m6, 800, "TIME6uS")
  IN MapSet(m7, 1000, "TIME10uS")

fill_maps_shape(m) ==
  LET m1 == MapSet(m, 25, "TIME0_25uS")
      m2 == MapSet(m1, 50, "TIME0_5uS")
      m3 == MapSet(m2, 100, "TIME1uS")
      m4 == MapSet(m3, 200, "TIME2uS")
      m5 == MapSet(m4, 400, "TIME4uS")
      m6 == MapSet(m5, 600, "TIME6uS")
      m7 == MapSet(m6, 800, "TIME8uS")
  IN MapSet(m7, 1000, "TIME10uS")

fill_maps_input_typo(m) ==
  LET m1 == MapSet(m, "intput1_negative", "INPUT1NEG")
      m2 == MapSet(m1, "input1_positive", "INPUT1POS")
      m3 == MapSet(m2, "input2_negative", "INPUT2NEG")
      m4 == MapSet(m3, "input2_positive", "INPUT1POS")
  IN MapSet(m4, "shaped_input", "INPUTXPOS")

fill_maps_input_input2pos(m) ==
  LET m1 == MapSet(m, "input1_negative", "INPUT1NEG")
      m2 == MapSet(m1, "input1_positive", "INPUT1POS")
      m3 == MapSet(m2, "input2_negative", "INPUT2NEG")
      m4 == MapSet(m3, "input2_positive", "INPUT2POS")
  IN MapSet(m4, "shaped_input", "INPUTXPOS")

fill_maps_input(m) ==
  LET m1 == MapSet(m, "input1_negative", "INPUT1NEG")
      m2 == MapSet(m1, "input1_positive", "INPUT1POS")
      m3 == MapSet(m2, "input2_negative", "INPUT2NEG")
      m4 == MapSet(m3, "input2_positive", "INPUT1POS")
  IN MapSet(m4, "shaped_input", "INPUTXPOS")

fill_maps(s) ==
  [s EXCEPT !.shape_map = fill_maps_shape(@),
            !.input_map = fill_maps_input(@)]

(***************************************************************************)
(* get_params                                                              *)
(*                                                                         *)
(* The function's working state s is the record of the globals it writes,  *)
(* the log, the keys read, and its return: s.returned says whether a       *)
(* return statement has been executed, s.ret the value returned.           *)
(***************************************************************************)
ErrHV == "High voltage must be set."

ErrGain == "Gain must be set."

ErrThreshold == "Threshold must be set."

ErrShapingSet == "Shaping time must be set."

ErrInputSet == "Input and Polartity must be set."

ErrRamp == "Ramping time must be set."

ErrShapingValid == "Shaping time must be valid. Input as double in microseconds."

ErrInputValid == "Input and polarity must be valid. Input as string in the format \"intput1_negative\" if using a pre-shaped positive input \"shaped_input\"."

fail(s, msg) ==
  [s EXCEPT !.rosout = Append(@, msg), !.ret = -1, !.returned = TRUE]

required_no_return(s, params, key, var, msg) ==
  IF s.returned THEN s
  ELSE LET q == [s EXCEPT !.param_reads = Append(@, key)]
       IN IF getParam(params, key)
            THEN [q EXCEPT ![var] = params[key][1]]
            ELSE [q EXCEPT !.rosout = Append(@, msg), !.ret = -1]

\* if (!nh.getParam(key, var)) { ROS_ERROR(msg); return (-1); }
required(s, params, key, var, msg) ==
  IF s.returned THEN s
  ELSE LET q == [s EXCEPT !.param_reads = Append(@, key)]
       IN IF getParam(params, key)
            THEN [q EXCEPT ![var] = params[key][1]]
            ELSE fail(q, msg)

\* The six presence checks, in the order of the source.
presence(s, params) ==
  LET a1 == required(s, params, "high_voltage", "HV", ErrHV)
      a2 == required(a1, params, "gain", "gain", ErrGain)
      a3 == required(a2, params, "threshold", "threshold", ErrThreshold)
      a4 == required(a3, params, "shaping_time", "shaping_time", ErrShapingSet)
      a5 == required(a4, params, "input_and_polarity", "input_polarity",
                     ErrInputSet)
  IN required(a5, params, "ramping_time", "ramp", ErrRamp)

lookups_label_first(s) ==
  LET m == fill_maps(s)
  IN IF m.input_polarity \notin DOMAIN m.input_map
       THEN fail(m, ErrInputValid)
     ELSE IF m.shaping_time \notin DOMAIN m.shape_map
       THEN fail(m, ErrShapingValid)
     ELSE [m EXCEPT !.real_shaping_time = m.shape_map[m.shaping_time],
                    !.real_input = m.input_map[m.input_polarity]]

\* fill_maps() and the two table lookups.
lookups(s) ==
  LET m == fill_maps(s)
  IN IF m.shaping_time \notin DOMAIN m.shape_map
       THEN fail(m, ErrShapingValid)
     ELSE IF m.input_polarity \notin DOMAIN m.input_map
       THEN fail(m, ErrInputValid)
     ELSE [m EXCEPT !.real_shaping_time = m.shape_map[m.shaping_time],
                    !.real_input = m.input_map[m.input_polarity]]

\* The tail of get_params: the parameters that have defaults.
defaults(s, params) ==
  [s EXCEPT !.port = param(params, "port", DefaultPort),
            !.baud = param(params, "baud", DefaultBaud),
            !.GMmode = param(params, "use_GM_mode", FALSE),
            !.imeadiate = param(params, "imeadiate_mode", FALSE),
            !.detector_frame = param(params, "detector_frame", DefaultFrame),
            !.param_reads = @ \o <<"port", "baud", "use_GM_mode",
                                   "imeadiate_mode", "detector_frame">>,
            !.ret = 1,
            !.returned = TRUE]

get_params(params, g) ==
  LET s0 == [g EXCEPT !.load_prev =
                         param(params, "load_previous_settings", FALSE),
                      !.param_reads = Append(@, "load_previous_settings")]
      s1 == IF ~s0.load_prev
              THEN LET p == presence(s0, params)
                   IN IF p.returned THEN p ELSE lookups(p)
              ELSE s0
  IN IF s1.returned THEN s1 ELSE defaults(s1, params)

\* The globals and logs as get_params finds them.
Entry ==
  [HV |-> HV, gain |-> gain, threshold |-> threshold,
   shaping_time |-> shaping_time, real_shaping_time |-> real_shaping_time,
   input_polarity |-> input_polarity, real_input |-> real_input,
   ramp |-> ramp, shape_map |-> shape_map, input_map |-> input_map,
   load_prev |-> load_prev, GMmode |-> GMmode, imeadiate |-> imeadiate,
   port |-> port, baud |-> baud, detector_frame |-> detector_frame,
   rosout |-> rosout, param_reads |-> param_reads,
   ret |-> 0, returned |-> FALSE]

\* C's logical negation of an int: !x is true iff x is 0.
LogicalNot(x) == x = 0

(***************************************************************************)
(* Calls on the device.                                                    *)
(***************************************************************************)
Call(op, arg) == [op |-> op, arg |-> arg]

Ops(calls) == [i \in DOMAIN calls |-> calls[i].op]

(***************************************************************************)
(* main                                                                    *)
(***************************************************************************)
\* if (!get_params(nh)) return (-1);
MainGetParams ==
  /\ pc = "get_params"
  /\ LET s == get_params(nh, Entry)
     IN /\ HV' = s.HV
        /\ gain' = s.gain
        /\ threshold' = s.threshold
        /\ shaping_time' = s.shaping_time
        /\ real_shaping_time' = s.real_shaping_time
        /\ input_polarity' = s.input_polarity
        /\ real_input' = s.real_input
        /\ ramp' = s.ramp
        /\ shape_map' = s.shape_map
        /\ input_map' = s.input_map
        /\ load_prev' = s.load_prev
        /\ GMmode' = s.GMmode
        /\ imeadiate' = s.imeadiate
        /\ port' = s.port
        /\ baud' = s.baud
        /\ detector_frame' = s.detector_frame
        /\ rosout' = s.rosout
        /\ param_reads' = s.param_reads
        /\ gp_ret' = s.ret
        /\ IF LogicalNot(s.ret)
             THEN pc' = "exited" /\ exit_status' = -1
             ELSE pc' = "connect" /\ exit_status' = exit_status
  /\ UNCHANGED <<nh, my_ursa, connected, wiring, published, events, running>>

MainConnect_ignore_failure ==
  /\ pc = "connect"
  /\ \E ok \in BOOLEAN :
       /\ my_ursa' = my_ursa \o <<Call("Interface", <<port, baud>>),
                                  Call("connect", <<>>)>>
       /\ connected' = ok
       /\ pc' = "advertise"
       /\ exit_status' = exit_status
  /\ UNCHANGED <<nh, globals, resolution, wiring, published, events, running>>

\* new ursa::Interface(port, baud); connect(); if not connected return (-1).
\* Whether the device answers is the device's choice.
MainConnect ==
  /\ pc = "connect"
  /\ \E ok \in BOOLEAN :
       /\ my_ursa' = my_ursa \o <<Call("Interface", <<port, baud>>),
                                  Call("connect", <<>>)>>
       /\ connected' = ok
       /\ IF ok
            THEN pc' = "advertise" /\ exit_status' = exit_status
            ELSE pc' = "exited" /\ exit_status' = -1
  /\ UNCHANGED <<nh, globals, resolution, wiring, published, events, running>>

\* The publisher, the three services and the (not yet started) timer.
MainAdvertise ==
  /\ pc = "advertise"
  /\ publisher' = IF GMmode THEN "counts" ELSE "spectra"
  /\ services' = {"startAcquire", "stopAcquire", "clearSpectra"}
  /\ timer' = "stopped"
  /\ pc' = "settings"
  /\ UNCHANGED <<nh, exit_status, globals, resolution, my_ursa, connected,
                 published, events, running>>

ExplicitSettings ==
  <<Call("setGain", <<gain>>),
    Call("setThresholdOffset", <<threshold>>),
    Call("setShapingTime", <<real_shaping_time>>),
    Call("setInput", <<real_input>>),
    Call("setRamp", <<ramp>>),
    Call("setVoltage", <<HV>>)>>

MainSettings_always_explicit ==
  /\ pc = "settings"
  /\ my_ursa' = my_ursa \o (IF load_prev
                              THEN <<Call("loadPrevSettings", <<>>)>>
                              ELSE <<>>) \o ExplicitSettings
  /\ pc' = "autostart"
  /\ UNCHANGED <<nh, exit_status, globals, resolution, connected, wiring,
                 published, events, running>>

MainSettings_voltage_first ==
  /\ pc = "settings"
  /\ my_ursa' = my_ursa \o
       (IF load_prev
          THEN <<Call("loadPrevSettings", <<>>)>>
          ELSE <<Call("setVoltage", <<HV>>)>> \o SubSeq(ExplicitSettings, 1, 5))
  /\ pc' = "autostart"
  /\ UNCHANGED <<nh, exit_status, globals, resolution, connected, wiring,
                 published, events, running>>

\* if (load_prev) loadPrevSettings(); else the six setters.
MainSettings ==
  /\ pc = "settings"
  /\ my_ursa' = my_ursa \o (IF load_prev
                              THEN <<Call("loadPrevSettings", <<>>)>>
                              ELSE ExplicitSettings)
  /\ pc' = "autostart"
  /\ UNCHANGED <<nh, exit_status, globals, resolution, connected, wiring,
                 published, events, running>>

StartCommand == IF GMmode THEN Call("startGM", <<>>)
                          ELSE Call("startAcquire", <<>>)

MainAutoStart_no_timer ==
  /\ pc = "autostart"
  /\ IF imeadiate
       THEN /\ my_ursa' = Append(my_ursa, StartCommand)
            /\ timer' = timer
       ELSE UNCHANGED <<my_ursa, timer>>
  /\ pc' = "spin"
  /\ UNCHANGED <<nh, exit_status, globals, resolution, connected, publisher,
                 services, published, events, running>>

\* if (imeadiate) { start in the selected mode; timer.start(); }
MainAutoStart ==
  /\ pc = "autostart"
  /\ IF imeadiate
       THEN /\ my_ursa' = Append(my_ursa, StartCommand)
            /\ timer' = "running"
       ELSE UNCHANGED <<my_ursa, timer>>
  /\ pc' = "spin"
  /\ UNCHANGED <<nh, exit_status, globals, resolution, connected, publisher,
                 services, published, events, running>>

(***************************************************************************)
(* ros::spin: the callback queue.  A service call that has arrived, or a   *)
(* period of the started timer that has elapsed, is taken off the queue by *)
(* a free spinner thread (spinDispatch), which then runs the callback to   *)
(* its return.                                                             *)
(***************************************************************************)
Pending == services \cup (IF timer = "running" THEN {"timer"} ELSE {})

InProgress(cb) == \E i \in DOMAIN running : running[i] = cb

\* running without its first occurrence of cb: the callback has returned.
Returned(cb) ==
  LET i == CHOOSE k \in DOMAIN running :
             running[k] = cb /\ \A j \in 1..(k - 1) : running[j] # cb
  IN SubSeq(running, 1, i - 1) \o SubSeq(running, i + 1, Len(running))

spinDispatch_when_advertised ==
  /\ pc \in {"settings", "autostart", "spin"}
  /\ events < MaxEvents
  /\ Len(running) < SpinnerThreads
  /\ \E cb \in Pending : running' = Append(running, cb)
  /\ events' = events + 1
  /\ UNCHANGED <<nh, pc, exit_status, globals, resolution, my_ursa, connected,
                 wiring, published>>

spinDispatch ==
  /\ pc = "spin"
  /\ events < MaxEvents
  /\ Len(running) < SpinnerThreads
  /\ \E cb \in Pending : running' = Append(running, cb)
  /\ events' = events + 1
  /\ UNCHANGED <<nh, pc, exit_status, globals, resolution, my_ursa, connected,
                 wiring, published>>

startAcquireCB ==
  /\ InProgress("startAcquire")
  /\ my_ursa' = Append(my_ursa, StartCommand)
  /\ timer' = "running"
  /\ running' = Returned("startAcquire")
  /\ UNCHANGED <<nh, pc, exit_status, globals, resolution, connected,
                 publisher, services, published, events>>

stopAcquireCB_keeps_timer ==
  /\ InProgress("stopAcquire")
  /\ timer' = timer
  /\ my_ursa' = Append(my_ursa, IF GMmode THEN Call("stopGM", <<>>)
                                          ELSE Call("stopAcquire", <<>>))
  /\ running' = Returned("stopAcquire")
  /\ UNCHANGED <<nh, pc, exit_status, globals, resolution, connected,
                 publisher, services, published, events>>

stopAcquireCB ==
  /\ InProgress("stopAcquire")
  /\ timer' = "stopped"
  /\ my_ursa' = Append(my_ursa, IF GMmode THEN Call("stopGM", <<>>)
                                          ELSE Call("stopAcquire", <<>>))
  /\ running' = Returned("stopAcquire")
  /\ UNCHANGED <<nh, pc, exit_status, globals, resolution, connected,
                 publisher, services, published, events>>

clearSpectraCB_stops_timer ==
  /\ InProgress("clearSpectra")
  /\ my_ursa' = Append(my_ursa, Call("clearSpectra", <<>>))
  /\ timer' = "stopped"
  /\ running' = Returned("clearSpectra")
  /\ UNCHANGED <<nh, pc, exit_status, globals, resolution, connected,
                 publisher, services, published, events>>

clearSpectraCB ==
  /\ InProgress("clearSpectra")
  /\ my_ursa' = Append(my_ursa, Call("clearSpectra", <<>>))
  /\ running' = Returned("clearSpectra")
  /\ UNCHANGED <<nh, pc, exit_status, globals, resolution, connected,
                 wiring, published, events>>

\* The device's answers, from the specification (ursa::Interface is not in
\* this file): the counts scalar is the device's running count of answered
\* requests, which clearing the spectral data does not touch; the histogram
\* is what the reads since the last clearSpectra accumulated.
requestCounts(calls) ==
  Cardinality({i \in DOMAIN calls : calls[i].op = "requestCounts"})

getSpectra(calls) ==
  Cardinality({i \in DOMAIN calls :
                 /\ calls[i].op = "read"
                 /\ \A j \in i..Len(calls) : calls[j].op # "clearSpectra"})

timerCallback_wrong_kind ==
  /\ InProgress("timer")
  /\ IF ~GMmode
       THEN /\ my_ursa' = Append(my_ursa, Call("requestCounts", <<>>))
            /\ published' = Append(published,
                 [kind |-> "ursa_counts", topic |-> publisher,
                  frame_id |-> detector_frame, stamp |-> events,
                  data |-> requestCounts(my_ursa')])
       ELSE /\ my_ursa' = my_ursa \o <<Call("read", <<>>),
                                       Call("getSpectra", <<>>)>>
            /\ published' = Append(published,
                 [kind |-> "ursa_spectra", topic |-> publisher,
                  frame_id |-> detector_frame, stamp |-> events,
                  data |-> getSpectra(my_ursa')])
  /\ running' = Returned("timer")
  /\ UNCHANGED <<nh, pc, exit_status, globals, resolution, connected, wiring,
                 events>>

\* One tick of the timer: read the device, publish one message.  The stamp
\* is the tick's place among the dispatched callbacks.
timerCallback ==
  /\ InProgress("timer")
  /\ IF GMmode
       THEN /\ my_ursa' = Append(my_ursa, Call("requestCounts", <<>>))
            /\ published' = Append(published,
                 [kind |-> "ursa_counts", topic |-> publisher,
                  frame_id |-> detector_frame, stamp |-> events,
                  data |-> requestCounts(my_ursa')])
       ELSE /\ my_ursa' = my_ursa \o <<Call("read", <<>>),
                                       Call("getSpectra", <<>>)>>
            /\ published' = Append(published,
                 [kind |-> "ursa_spectra", topic |-> publisher,
                  frame_id |-> detector_frame, stamp |-> events,
                  data |-> getSpectra(my_ursa')])
  /\ running' = Returned("timer")
  /\ UNCHANGED <<nh, pc, exit_status, globals, resolution, connected, wiring,
                 events>>

MainShutdown_voltage_first ==
  /\ pc = "spin"
  /\ running = <<>>
  /\ my_ursa' = my_ursa \o <<Call("setVoltage", <<0>>),
                             Call("stopAcquire", <<>>)>>
  /\ pc' = "exited"
  /\ exit_status' = 0
  /\ UNCHANGED <<nh, globals, resolution, connected, wiring, published, events,
                 running>>

\* ros::spin() returns; stopAcquire(); setVoltage(0); main returns 0.
MainShutdown ==
  /\ pc = "spin"
  /\ running = <<>>
  /\ my_ursa' = my_ursa \o <<Call("stopAcquire", <<>>),
                             Call("setVoltage", <<0>>)>>
  /\ pc' = "exited"
  /\ exit_status' = 0
  /\ UNCHANGED <<nh, globals, resolution, connected, wiring, published, events,
                 running>>

(***************************************************************************)
(* Initial states: the globals as the file initialises them, and a         *)
(* parameter namespace drawn from a bounded set.                           *)
(***************************************************************************)
Statics ==
  /\ pc = "get_params"
  /\ exit_status = 0
  /\ HV = 0
  /\ gain = 0
  /\ threshold = 0
  /\ shaping_time = 100
  /\ real_shaping_time = ZeroEnum
  /\ input_polarity = ""
  /\ real_input = ZeroEnum
  /\ ramp = 6
  /\ shape_map = EmptyMap
  /\ input_map = EmptyMap
  /\ load_prev = FALSE
  /\ GMmode = FALSE
  /\ imeadiate = FALSE
  /\ port = ""
  /\ baud = 0
  /\ detector_frame = ""
  /\ gp_ret = 0
  /\ rosout = <<>>
  /\ param_reads = <<>>
  /\ my_ursa = <<>>
  /\ connected = FALSE
  /\ publisher = ""
  /\ services = {}
  /\ timer = "none"
  /\ published = <<>>
  /\ events = 0
  /\ running = <<>>

\* The shaping times of the table, then three that are not in it
\* (0.1, 3 and 12 microseconds).
ValidShapingTimes == {25, 50, 100, 200, 400, 600, 800, 1000}

InvalidShapingTimes == {10, 300, 1200}

ValidLabels == {"input1_negative", "input1_positive", "input2_negative",
                "input2_positive", "shaped_input"}

InvalidLabels == {"", "Input1_Negative", "input3_negative"}

\* Parameter namespaces for the runs of the whole node.
NodeParams ==
  [load_previous_settings : Opt(BOOLEAN),
   high_voltage : Opt({900}),
   gain : Opt({5}),
   threshold : Opt({40}),
   shaping_time : Opt({25, 300}),
   input_and_polarity : Opt(ValidLabels \cup {"Input1_Negative"}),
   ramping_time : Opt({10}),
   port : {<<>>},
   baud : {<<>>},
   use_GM_mode : Opt({TRUE}),
   imeadiate_mode : Opt({TRUE}),
   detector_frame : {<<>>}]

\* Parameter namespaces for the resolution alone: every shaping time and
\* label of the tables, values outside them, and every optional key.
ResolveParams ==
  [load_previous_settings : Opt(BOOLEAN),
   high_voltage : Opt({900}),
   gain : Opt({5}),
   threshold : Opt({40}),
   shaping_time : Opt(ValidShapingTimes \cup InvalidShapingTimes),
   input_and_polarity : Opt(ValidLabels \cup InvalidLabels),
   ramping_time : Opt({10}),
   port : Opt({"/dev/ttyS0"}),
   baud : Opt({9600}),
   use_GM_mode : Opt(BOOLEAN),
   imeadiate_mode : Opt(BOOLEAN),
   detector_frame : Opt({"base_link"})]

Init == nh \in NodeParams /\ Statics

InitResolve == nh \in ResolveParams /\ Statics

Next ==
  \/ MainGetParams
  \/ MainConnect
  \/ MainAdvertise
  \/ MainSettings
  \/ MainAutoStart
  \/ spinDispatch
  \/ startAcquireCB
  \/ stopAcquireCB
  \/ clearSpectraCB
  \/ timerCallback
  \/ MainShutdown

\* The whole node.
Spec == Init /\ [][Next]_vars

\* The resolution alone, over the wide parameter namespaces.
SpecResolve == InitResolve /\ [][MainGetParams]_vars

(***************************************************************************)
(* Properties.                                                             *)
(***************************************************************************)
Present(key) == Len(nh[key]) > 0

\* load_previous_settings as nh.param resolves it: false unless set true.
ExplicitRequested == nh.load_previous_settings # <<TRUE>>

RequiredOrder == <<"high_voltage", "gain", "threshold", "shaping_time",
                   "input_and_polarity", "ramping_time">>

AllRequiredPresent == \A i \in DOMAIN RequiredOrder : Present(RequiredOrder[i])

SettingOps == {"setGain", "setThresholdOffset", "setShapingTime", "setInput",
               "setRamp", "setVoltage"}

Count(calls, op) == Cardinality({i \in DOMAIN calls : calls[i].op = op})

\* The tables as the specification gives them.
SpecShapingCode(t) ==
  CASE t = 25 -> "TIME0_25uS"
    [] t = 50 -> "TIME0_5uS"
    [] t = 100 -> "TIME1uS"
    [] t = 200 -> "TIME2uS"
    [] t = 400 -> "TIME4uS"
    [] t = 600 -> "TIME6uS"
    [] t = 800 -> "TIME8uS"
    [] t = 1000 -> "TIME10uS"

\* C1: whenever get_params fails (returns -1), the process has exited with a
\* non-zero status and no call is ever made on the device: no Interface is
\* constructed, connect() is not called, no set*/start*/stop* is issued.
C1_FailedResolutionExits ==
  gp_ret = -1 => /\ pc = "exited"
                 /\ exit_status # 0
                 /\ my_ursa = <<>>

\* C2: with load_previous_settings false, whenever any of the six setters has
\* been issued, all six required parameters were set, the shaping time and
\* the label were in their tables, and every setter carries the value (or the
\* table image of the value) of its parameter.
C2_NeverPartiallyPopulated ==
  (~load_prev /\ \E i \in DOMAIN my_ursa : my_ursa[i].op \in SettingOps)
    => /\ AllRequiredPresent
       /\ nh.shaping_time[1] \in ValidShapingTimes
       /\ nh.input_and_polarity[1] \in ValidLabels
       /\ \A i \in DOMAIN my_ursa :
            LET c == my_ursa[i]
            IN /\ c.op = "setGain" => c.arg = nh.gain
               /\ c.op = "setThresholdOffset" => c.arg = nh.threshold
               /\ c.op = "setShapingTime" =>
                    c.arg = <<SpecShapingCode(nh.shaping_time[1])>>
               /\ c.op = "setInput" =>
                    c.arg = <<fill_maps_input(EmptyMap)[nh.input_and_polarity[1]]>>
               /\ c.op = "setRamp" => c.arg = nh.ramping_time
               /\ (c.op = "setVoltage" /\ pc # "exited") => c.arg = nh.high_voltage

FirstAbsent ==
  CHOOSE i \in DOMAIN RequiredOrder :
    /\ ~Present(RequiredOrder[i])
    /\ \A j \in 1..(i - 1) : Present(RequiredOrder[j])

MissingMessage(key) ==
  CASE key = "high_voltage" -> "High voltage must be set."
    [] key = "gain" -> "Gain must be set."
    [] key = "threshold" -> "Threshold must be set."
    [] key = "shaping_time" -> "Shaping time must be set."
    [] key = "input_and_polarity" -> "Input and Polartity must be set."
    [] key = "ramping_time" -> "Ramping time must be set."

\* C3: with load_previous_settings false and a required parameter absent,
\* get_params returns -1 having logged exactly one error, the one of the
\* first absent parameter in the order high_voltage, gain, threshold,
\* shaping_time, input_and_polarity, ramping_time, and having looked up no
\* key after that one.
C3_FirstMissingFieldOnly ==
  (gp_ret # 0 /\ ExplicitRequested /\ ~AllRequiredPresent)
    => /\ gp_ret = -1
       /\ rosout = <<MissingMessage(RequiredOrder[FirstAbsent])>>
       /\ param_reads = <<"load_previous_settings">>
                          \o SubSeq(RequiredOrder, 1, FirstAbsent)

\* threshold is the first absent parameter and two later ones are absent too.
C3_Witness ==
  /\ gp_ret = -1
  /\ ExplicitRequested
  /\ Present("high_voltage") /\ Present("gain")
  /\ ~Present("threshold") /\ ~Present("input_and_polarity")
  /\ ~Present("ramping_time")
  /\ rosout = <<"Threshold must be set.">>

OthersValidForShaping ==
  /\ ExplicitRequested
  /\ AllRequiredPresent
  /\ nh.input_and_polarity[1] \in ValidLabels

\* C4: with load_previous_settings false and the other required parameters
\* present and valid, get_params returns 1 iff shaping_time is one of 0.25,
\* 0.5, 1, 2, 4, 6, 8, 10; it then resolves to that value's code, distinct
\* values to distinct codes; any other value returns -1 with the
\* invalid-shaping-time error alone.
C4_ShapingTimeTable ==
  (gp_ret # 0 /\ OthersValidForShaping)
    => LET t == nh.shaping_time[1]
       IN /\ gp_ret = 1 <=> t \in ValidShapingTimes
          /\ gp_ret = 1 =>
               /\ real_shaping_time = SpecShapingCode(t)
               /\ \A a, b \in ValidShapingTimes :
                    a # b => shape_map[a] # shape_map[b]
          /\ t \notin ValidShapingTimes =>
               /\ gp_ret = -1
               /\ rosout = <<ErrShapingValid>>

\* 8 microseconds resolved to its code.
C4_WitnessValid ==
  /\ gp_ret = 1
  /\ OthersValidForShaping
  /\ nh.shaping_time = <<800>>
  /\ real_shaping_time = "TIME8uS"

OthersValidForLabel ==
  /\ ExplicitRequested
  /\ AllRequiredPresent
  /\ nh.shaping_time[1] \in ValidShapingTimes

\* C5: with load_previous_settings false and the other required parameters
\* present and valid, get_params returns 1 iff input_and_polarity is exactly
\* one of the five labels; any other string (the empty string, a case
\* variant) returns -1 with the invalid-input-polarity error alone.
C5_InputLabelTable ==
  (gp_ret # 0 /\ OthersValidForLabel)
    => LET l == nh.input_and_polarity[1]
       IN /\ gp_ret = 1 <=> l \in {"input1_negative", "input1_positive",
                                   "input2_negative", "input2_positive",
                                   "shaped_input"}
          /\ gp_ret = -1 => rosout = <<ErrInputValid>>

\* A case variant of a label is refused.
C5_WitnessCase ==
  /\ gp_ret = -1
  /\ OthersValidForLabel
  /\ nh.input_and_polarity = <<"Input1_Negative">>
  /\ rosout = <<ErrInputValid>>

\* C6: input1_positive and input2_positive resolve to the same code,
\* INPUT1POS, which is then the argument of setInput for both; the other
\* three labels resolve to codes distinct from it and from each other.
C6_DuplicatePositiveCode ==
  (gp_ret = 1 /\ ~load_prev)
    => /\ input_map["input1_positive"] = "INPUT1POS"
       /\ input_map["input2_positive"] = "INPUT1POS"
       /\ \A a, b \in {"input1_negative", "input2_negative", "shaped_input"} :
            /\ input_map[a] # "INPUT1POS"
            /\ a # b => input_map[a] # input_map[b]
       /\ real_input = input_map[nh.input_and_polarity[1]]
       /\ \A i \in DOMAIN my_ursa :
            my_ursa[i].op = "setInput" => my_ursa[i].arg = <<real_input>>

\* setInput issued for input2_positive, with the code of input1_positive.
C6_Witness ==
  /\ gp_ret = 1
  /\ nh.input_and_polarity = <<"input2_positive">>
  /\ \E i \in DOMAIN my_ursa :
       my_ursa[i].op = "setInput" /\ my_ursa[i].arg = <<"INPUT1POS">>

\* C7: with load_previous_settings true, get_params returns 1 without an
\* error whatever the six explicit parameters are; once connected and past
\* the settings step the host has issued loadPrevSettings (right after
\* connect) and none of setGain, setThresholdOffset, setShapingTime,
\* setInput, setRamp, nor a setVoltage of a non-zero value.
C7_LoadPreviousPath ==
  nh.load_previous_settings = <<TRUE>>
    => /\ pc # "get_params" => (gp_ret = 1 /\ rosout = <<>>)
       /\ pc \in {"autostart", "spin"} =>
            /\ Count(my_ursa, "loadPrevSettings") = 1
            /\ my_ursa[3].op = "loadPrevSettings"
       /\ \A i \in DOMAIN my_ursa :
            /\ my_ursa[i].op \notin SettingOps \ {"setVoltage"}
            /\ my_ursa[i].op = "setVoltage" => my_ursa[i].arg = <<0>>

\* Spinning on the load-previous path although no explicit parameter is set
\* but an invalid label.
C7_Witness ==
  /\ nh.load_previous_settings = <<TRUE>>
  /\ ~Present("high_voltage") /\ ~Present("gain") /\ ~Present("shaping_time")
  /\ nh.input_and_polarity = <<"Input1_Negative">>
  /\ pc = "spin"
  /\ Count(my_ursa, "loadPrevSettings") = 1

Supplied(key, default) == IF Present(key) THEN nh[key][1] ELSE default

\* C8: whenever get_params returns 1, on either path, port, baud, GMmode,
\* imeadiate and detector_frame each hold the parameter's value when the key
\* is set and otherwise "/dev/ttyUSB0", 115200, false (spectral), false and
\* "rad_link", and no error has been logged.
C8_Defaults ==
  gp_ret = 1
    => /\ port = Supplied("port", "/dev/ttyUSB0")
       /\ baud = Supplied("baud", 115200)
       /\ GMmode = Supplied("use_GM_mode", FALSE)
       /\ imeadiate = Supplied("imeadiate_mode", FALSE)
       /\ detector_frame = Supplied("detector_frame", "rad_link")
       /\ rosout = <<>>

\* The explicit path with a port supplied and the other four defaulted.
C8_Witness ==
  /\ gp_ret = 1
  /\ ~load_prev
  /\ nh.port = <<"/dev/ttyS0">> /\ port = "/dev/ttyS0"
  /\ ~Present("baud") /\ baud = 115200
  /\ ~Present("use_GM_mode") /\ ~Present("imeadiate_mode")
  /\ ~Present("detector_frame") /\ detector_frame = "rad_link"

\* C9: with load_previous_settings false, once connected and past the
\* settings step the calls on the device after connect begin with setGain,
\* setThresholdOffset, setShapingTime, setInput, setRamp, setVoltage in that
\* order, carrying the resolved values; each setter was issued once by that
\* step (setVoltage a second time only by the shutdown), and no start and no
\* loadPrevSettings precedes setVoltage.
C9_ExplicitSettingsOrder ==
  (pc \in {"autostart", "spin", "exited"} /\ connected /\ ~load_prev)
    => /\ Len(my_ursa) >= 8
       /\ Ops(SubSeq(my_ursa, 1, 8)) =
            <<"Interface", "connect", "setGain", "setThresholdOffset",
              "setShapingTime", "setInput", "setRamp", "setVoltage">>
       /\ my_ursa[3].arg = <<gain>>
       /\ my_ursa[4].arg = <<threshold>>
       /\ my_ursa[5].arg = <<real_shaping_time>>
       /\ my_ursa[6].arg = <<real_input>>
       /\ my_ursa[7].arg = <<ramp>>
       /\ my_ursa[8].arg = <<HV>>
       /\ \A op \in SettingOps \ {"setVoltage"} : Count(my_ursa, op) = 1
       /\ pc # "exited" => Count(my_ursa, "setVoltage") = 1
       /\ Count(my_ursa, "loadPrevSettings") = 0

\* The six setters issued with the resolved values of a valid configuration.
C9_Witness ==
  /\ pc = "autostart"
  /\ gp_ret = 1
  /\ ~load_prev
  /\ Ops(my_ursa) = <<"Interface", "connect", "setGain", "setThresholdOffset",
                      "setShapingTime", "setInput", "setRamp", "setVoltage">>
  /\ my_ursa[8].arg = <<900>>

ConnectAttempted == \E i \in DOMAIN my_ursa : my_ursa[i].op = "connect"

\* C10: when connect() leaves the device not connected, the process has
\* exited with a non-zero status having done nothing further: the only calls
\* on the device are the construction and connect, nothing is advertised,
\* the timer does not exist and nothing was published.
C10_ConnectFailureExits ==
  (ConnectAttempted /\ ~connected)
    => /\ pc = "exited"
       /\ exit_status # 0
       /\ Ops(my_ursa) = <<"Interface", "connect">>
       /\ publisher = ""
       /\ services = {}
       /\ timer = "none"
       /\ published = <<>>

\* A successful resolution followed by a connection that failed.
C10_Witness ==
  /\ gp_ret = 1
  /\ ConnectAttempted
  /\ ~connected
  /\ pc = "exited"

StartOps == {"startGM", "startAcquire"}

StopOps == {"stopGM", "stopAcquire"}

TickOps == {"requestCounts", "read"}

\* The op of the last start or stop command among calls ("none" before any):
\* what the device was last commanded about acquisition.
LastStartStop(calls) ==
  LET I == {i \in DOMAIN calls : calls[i].op \in StartOps \cup StopOps}
  IN IF I = {} THEN "none"
     ELSE calls[CHOOSE i \in I : \A j \in I : j <= i].op

SelectedStart == IF GMmode THEN "startGM" ELSE "startAcquire"

SelectedStop == IF GMmode THEN "stopGM" ELSE "stopAcquire"

\* C11: when main enters ros::spin, with imeadiate true the last call on the
\* device, right after the settings step, is the one start command of the
\* selected mode and the timer is running; with imeadiate false no start
\* command has been issued and the timer is stopped.  No start command of the
\* other mode is ever issued, and nothing is polled or published while no
\* start command has been issued.
C11_AutoStart ==
  /\ (pc = "spin" /\ events = 0) =>
       IF imeadiate
         THEN /\ my_ursa[Len(my_ursa)].op = SelectedStart
              /\ my_ursa[Len(my_ursa) - 1].op \in {"setVoltage", "loadPrevSettings"}
              /\ Count(my_ursa, "startGM") + Count(my_ursa, "startAcquire") = 1
              /\ timer = "running"
         ELSE /\ Count(my_ursa, "startGM") + Count(my_ursa, "startAcquire") = 0
              /\ timer = "stopped"
  /\ Count(my_ursa, IF GMmode THEN "startAcquire" ELSE "startGM") = 0
  /\ (\A i \in DOMAIN my_ursa : my_ursa[i].op \notin StartOps) =>
       /\ timer # "running"
       /\ published = <<>>
       /\ \A i \in DOMAIN my_ursa : my_ursa[i].op \notin TickOps

\* Counting mode started at once: startGM issued, the timer running.
C11_Witness ==
  /\ pc = "spin"
  /\ events = 0
  /\ imeadiate
  /\ GMmode
  /\ my_ursa[Len(my_ursa)].op = "startGM"
  /\ timer = "running"

\* C12: while spinning, the timer is running exactly when the last start or
\* stop command sent was the start of the selected mode (and is stopped when
\* it was the stop of that mode or none was sent); a start invoked when
\* already started, and a stop invoked when already stopped, leave the timer
\* and the last commanded acquisition as they were; a tick runs only when the
\* last command was the start, never between a stop and the next start.
C12_StartStop ==
  [][ /\ pc' = "spin" =>
           /\ timer' = "running" <=> LastStartStop(my_ursa') = SelectedStart
           /\ timer' # "running" =>
                (timer' = "stopped"
                   /\ LastStartStop(my_ursa') \in {"none", SelectedStop})
      /\ (startAcquireCB /\ LastStartStop(my_ursa) = SelectedStart) =>
           /\ timer' = timer
           /\ LastStartStop(my_ursa') = LastStartStop(my_ursa)
      /\ (stopAcquireCB /\ LastStartStop(my_ursa) = SelectedStop) =>
           /\ timer' = timer
           /\ LastStartStop(my_ursa') = LastStartStop(my_ursa)
      /\ timerCallback => LastStartStop(my_ursa) = SelectedStart
    ]_vars

\* A start, a stop and a second stop in a row: polling is off.
C12_Witness ==
  /\ pc = "spin"
  /\ running = <<>>
  /\ Len(my_ursa) >= 3
  /\ my_ursa[Len(my_ursa) - 2].op \in StartOps
  /\ my_ursa[Len(my_ursa) - 1].op \in StopOps
  /\ my_ursa[Len(my_ursa)].op \in StopOps
  /\ timer = "stopped"

NotClearSpectra(c) == c.op # "clearSpectra"

\* The calls as they would be had clear-spectra never been invoked.
WithoutClear(calls) == SelectSeq(calls, NotClearSpectra)

C14_Shutdown ==
  (pc = "exited" /\ exit_status = 0)
    => /\ Len(my_ursa) >= 2
       /\ my_ursa[Len(my_ursa) - 1].op = "stopAcquire"
       /\ my_ursa[Len(my_ursa)].op = "setVoltage"
       /\ my_ursa[Len(my_ursa)].arg = <<0>>
       /\ running = <<>>
       /\ ~ENABLED Next

\* Shutdown in counting mode after a start, a tick and a clear-spectra.
C14_Witness ==
  /\ pc = "exited"
  /\ exit_status = 0
  /\ GMmode
  /\ events = 3
  /\ published # <<>>
  /\ Count(my_ursa, "clearSpectra") = 1
  /\ my_ursa[Len(my_ursa)].op = "setVoltage"

\* C15: the six presence checks come before both table lookups, and the
\* shaping-time lookup before the label lookup: with a required parameter
\* absent the only error is the missing-parameter one (and the tables are not
\* even filled), whatever the shaping time and the label are; with all
\* present and both invalid the only error is the invalid-shaping-time one;
\* the invalid-label error needs a valid shaping time.
C15_ValidationOrder ==
  (gp_ret # 0 /\ ExplicitRequested)
    => /\ ~AllRequiredPresent =>
            /\ rosout = <<MissingMessage(RequiredOrder[FirstAbsent])>>
            /\ DOMAIN shape_map = {}
            /\ DOMAIN input_map = {}
       /\ (AllRequiredPresent /\ nh.shaping_time[1] \notin ValidShapingTimes) =>
            rosout = <<ErrShapingValid>>
       /\ (AllRequiredPresent /\ ErrInputValid \in {rosout[i] : i \in DOMAIN rosout}) =>
            /\ nh.shaping_time[1] \in ValidShapingTimes
            /\ nh.input_and_polarity[1] \notin ValidLabels
            /\ Len(rosout) = 1

\* All six present, shaping time 3 and label "" both invalid: one error.
C15_WitnessBothInvalid ==
  /\ gp_ret = -1
  /\ ExplicitRequested
  /\ AllRequiredPresent
  /\ nh.shaping_time = <<300>>
  /\ nh.input_and_polarity = <<"">>
  /\ rosout = <<ErrShapingValid>>

\* C16: every tick has published exactly one message, of the kind of the
\* mode and on the publisher advertised for it: in counting mode one
\* requestCounts per message, ursa_counts on "counts"; in spectral mode one
\* read immediately followed by one getSpectra per message, ursa_spectra on
\* "spectra".  Each message carries detector_frame and its tick's stamp, the
\* stamps increasing, and the mode is the one get_params resolved.
C16_TickPublishes ==
  /\ pc # "get_params" =>
       GMmode = (gp_ret = 1 /\ nh.use_GM_mode = <<TRUE>>)
  /\ \A k \in DOMAIN published :
       LET m == published[k]
       IN /\ m.frame_id = detector_frame
          /\ m.topic = publisher
          /\ m.kind = (IF GMmode THEN "ursa_counts" ELSE "ursa_spectra")
          /\ m.topic = (IF GMmode THEN "counts" ELSE "spectra")
          /\ m.stamp \in 1..events
          /\ \A l \in DOMAIN published : k < l => m.stamp < published[l].stamp
  /\ IF GMmode
       THEN /\ Count(my_ursa, "requestCounts") = Len(published)
            /\ Count(my_ursa, "read") + Count(my_ursa, "getSpectra") = 0
       ELSE /\ Count(my_ursa, "read") = Len(published)
            /\ Count(my_ursa, "getSpectra") = Len(published)
            /\ Count(my_ursa, "requestCounts") = 0
            /\ \A i \in DOMAIN my_ursa :
                 my_ursa[i].op = "read" =>
                   (i < Len(my_ursa) /\ my_ursa[i + 1].op = "getSpectra")

\* Two ticks in spectral mode, two spectra messages.
C16_Witness ==
  /\ ~GMmode
  /\ Len(published) = 2
  /\ Count(my_ursa, "read") = 2
  /\ published[2].kind = "ursa_spectra"
  /\ published[2].topic = "spectra"

\* C17: at most one callback is in progress at any time, and only while main
\* is in ros::spin: while a tick is in progress every earlier tick has made
\* its device reads and published its message, and no start, stop or
\* clear-spectra callback is in progress beside it; in the calls on the
\* device a tick's read is immediately followed by its getSpectra.
C17_OneCallbackAtATime ==
  /\ Len(running) <= 1
  /\ running # <<>> => pc = "spin"
  /\ InProgress("timer") =>
       /\ running = <<"timer">>
       /\ Len(published) =
            Count(my_ursa, IF GMmode THEN "requestCounts" ELSE "getSpectra")
       /\ Len(published) =
            Count(my_ursa, IF GMmode THEN "requestCounts" ELSE "read")
  /\ \A i \in DOMAIN my_ursa :
       my_ursa[i].op = "read" =>
         (i < Len(my_ursa) /\ my_ursa[i + 1].op = "getSpectra")

\* A second tick in progress after the first has published.
C17_Witness ==
  /\ running = <<"timer">>
  /\ Len(published) = 1
  /\ pc = "spin"

SettingsEnd == IF load_prev THEN 3 ELSE 8

CallbackOps == StartOps \cup StopOps \cup TickOps \cup {"clearSpectra", "getSpectra"}

\* C18: get_params has run exactly once before any call on the device; and
\* although the services and the timer exist from before the settings step,
\* a callback is in progress or has run only once main is in ros::spin, the
\* device connected and the settings step complete (loadPrevSettings, or the
\* six setters ending with setVoltage, are the calls right after connect);
\* every start, stop, clear and polling call comes after that step.
C18_CallbacksAfterSettings ==
  /\ my_ursa # <<>> => gp_ret # 0
  /\ Cardinality({i \in DOMAIN param_reads :
                    param_reads[i] = "load_previous_settings"})
       = (IF pc = "get_params" THEN 0 ELSE 1)
  /\ (running # <<>> \/ events > 0 \/ published # <<>>) =>
       /\ pc \in {"spin", "exited"}
       /\ connected
       /\ Len(my_ursa) >= SettingsEnd
       /\ my_ursa[SettingsEnd].op =
            (IF load_prev THEN "loadPrevSettings" ELSE "setVoltage")
  /\ \A i \in DOMAIN my_ursa :
       my_ursa[i].op \in CallbackOps => (i > SettingsEnd /\ connected)

\* A clear-spectra callback has run, its call right after the six setters.
C18_Witness ==
  /\ pc = "spin"
  /\ ~load_prev
  /\ events = 1
  /\ running = <<>>
  /\ Len(my_ursa) = 9
  /\ my_ursa[8].op = "setVoltage"
  /\ my_ursa[9].op = "clearSpectra"

\* C19: every stop command sent matches the mode: in counting mode stopGM
\* and never stopAcquire, in spectral mode stopAcquire and never stopGM, from
\* the stop-acquisition callback and from the shutdown alike.
C19_StopMatchesMode ==
  Count(my_ursa, IF GMmode THEN "stopAcquire" ELSE "stopGM") = 0

====
